---------------------------- MODULE Spec2Model ----------------------------
(***************************************************************************)
(* A model of the doomish modal editor core: the TextBuffer, the cursor    *)
(* and viewport, the mode machine with its leader trie, the command        *)
(* palette and the fuzzy matcher.                                          *)
(*                                                                         *)
(* A string is a sequence of one-character strings, a line is a string,    *)
(* and a buffer is a sequence of lines.  Rows and columns are 0-based as   *)
(* in the source; sequences are 1-based, so row r is lines[r + 1].         *)
(***************************************************************************)
EXTENDS Integers, Sequences, FiniteSets, TLC

(***************************************************************************)
(* Bounds of the model.                                                    *)
(***************************************************************************)
MaxSize == 3
MaxQuery == 1
MaxPending == 1
MaxPad == 34
MaxText == 2
MaxItems == 3
MaxLimit == 2
MaxData == 4
MaxBufLines == 2
MaxListQuery == 3

Max(a, b) == IF a >= b THEN a ELSE b
Min(a, b) == IF a <= b THEN a ELSE b

(***************************************************************************)
(* String primitives of the language runtime.                              *)
(***************************************************************************)
Lower(c) ==
  CASE c = "A" -> "a" [] c = "B" -> "b" [] c = "C" -> "c" [] c = "F" -> "f"
    [] c = "L" -> "l" [] c = "M" -> "m" [] c = "O" -> "o" [] c = "P" -> "p"
    [] c = "Q" -> "q" [] c = "S" -> "s" [] c = "V" -> "v" [] c = "X" -> "x"
    [] OTHER -> c

toLowerCase(s) == [i \in 1..Len(s) |-> Lower(s[i])]

\* String.prototype.slice(a, b): negative indices count from the end.
JSlice(s, a, b) ==
  LET n == Len(s)
      from == IF a < 0 THEN Max(n + a, 0) ELSE Min(a, n)
      to == IF b < 0 THEN Max(n + b, 0) ELSE Min(b, n)
  IN SubSeq(s, from + 1, to)

\* String.prototype.slice(a): to the end of the string.
JSliceFrom(s, a) == JSlice(s, a, Len(s))

startsWith(s, p) == Len(s) >= Len(p) /\ SubSeq(s, 1, Len(p)) = p

IsSpace(c) == c \in {" ", "\n", "\r", "\t"}

RECURSIVE trimStart(_)
trimStart(s) == IF s # <<>> /\ IsSpace(Head(s)) THEN trimStart(Tail(s)) ELSE s

RECURSIVE trimEnd(_)
trimEnd(s) ==
  IF s # <<>> /\ IsSpace(s[Len(s)]) THEN trimEnd(SubSeq(s, 1, Len(s) - 1)) ELSE s

trim(s) == trimEnd(trimStart(s))

\* data.replace(/\r\n/g, "\n")
RECURSIVE replaceCRLF(_)
replaceCRLF(data) ==
  IF data = <<>> THEN <<>>
  ELSE IF Len(data) >= 2 /\ data[1] = "\r" /\ data[2] = "\n"
       THEN <<"\n">> \o replaceCRLF(SubSeq(data, 3, Len(data)))
       ELSE <<Head(data)>> \o replaceCRLF(Tail(data))

\* data.split("\n"): always at least one piece.
RECURSIVE split(_)
split(data) ==
  IF \A i \in 1..Len(data) : data[i] # "\n" THEN <<data>>
  ELSE LET i == CHOOSE j \in 1..Len(data) :
                  data[j] = "\n" /\ \A k \in 1..(j - 1) : data[k] # "\n"
       IN <<SubSeq(data, 1, i - 1)>> \o split(SubSeq(data, i + 1, Len(data)))

\* lines.join("\n")
RECURSIVE join(_)
join(ls) ==
  IF ls = <<>> THEN <<>>
  ELSE IF Len(ls) = 1 THEN ls[1]
  ELSE ls[1] \o <<"\n">> \o join(Tail(ls))

(***************************************************************************)
(* FuzzyMatcher (editor/fuzzy.ts).                                         *)
(***************************************************************************)
NoMatch == -1

\* The scan loop keeping the streak over a mismatch.
RECURSIVE M_fuzzyLoop_KeepsStreak(_, _, _, _, _, _, _)
M_fuzzyLoop_KeepsStreak(q, t, i, qi, score, streak, firstMatch) ==
  IF i < Len(t) /\ qi < Len(q)
  THEN IF t[i + 1] = q[qi + 1]
       THEN M_fuzzyLoop_KeepsStreak(q, t, i + 1, qi + 1, score + 10 + (streak + 1) * 5,
                                    streak + 1, IF firstMatch = -1 THEN i ELSE firstMatch)
       ELSE M_fuzzyLoop_KeepsStreak(q, t, i + 1, qi, score - 1, streak, firstMatch)
  ELSE [qi |-> qi, score |-> score, firstMatch |-> firstMatch]

\* The scan loop of fuzzyScore; i and qi are the 0-based loop indices.
RECURSIVE fuzzyLoop(_, _, _, _, _, _, _)
fuzzyLoop(q, t, i, qi, score, streak, firstMatch) ==
  IF i < Len(t) /\ qi < Len(q)
  THEN IF t[i + 1] = q[qi + 1]
       THEN fuzzyLoop(q, t, i + 1, qi + 1, score + 10 + (streak + 1) * 5,
                      streak + 1, IF firstMatch = -1 THEN i ELSE firstMatch)
       ELSE fuzzyLoop(q, t, i + 1, qi, score - 1, 0, firstMatch)
  ELSE [qi |-> qi, score |-> score, firstMatch |-> firstMatch]

fuzzyScore(query, text) ==
  LET q == toLowerCase(query)
      t == toLowerCase(text)
  IN IF q = <<>> THEN 0
     ELSE LET r == fuzzyLoop(q, t, 0, 0, 0, 0, -1)
          IN IF r.qi < Len(q) THEN NoMatch
             ELSE r.score
                  + Max(0, 50 - (IF r.firstMatch = -1 THEN 50 ELSE r.firstMatch))

\* insertHit placing h before the hits of equal score.
RECURSIVE M_insertHit_TiesReversed(_, _)
M_insertHit_TiesReversed(sorted, h) ==
  IF sorted = <<>> THEN <<h>>
  ELSE IF h.score - Head(sorted).score >= 0 THEN <<h>> \o sorted
  ELSE <<Head(sorted)>> \o M_insertHit_TiesReversed(Tail(sorted), h)

\* One step of a stable sort by (a, b) => b.score - a.score: h goes after
\* every hit whose score is not smaller than its own.
RECURSIVE insertHit(_, _)
insertHit(sorted, h) ==
  IF sorted = <<>> THEN <<h>>
  ELSE IF h.score - Head(sorted).score > 0 THEN <<h>> \o sorted
  ELSE <<Head(sorted)>> \o insertHit(Tail(sorted), h)

RECURSIVE sortHits(_)
sortHits(hits) ==
  IF hits = <<>> THEN <<>>
  ELSE insertHit(sortHits(SubSeq(hits, 1, Len(hits) - 1)), hits[Len(hits)])

\* The collecting loop of fuzzyFind: items whose score is >= 0, in input order.
collectHits(query, items) ==
  LET scored == [i \in 1..Len(items) |->
                   [item |-> items[i], score |-> fuzzyScore(query, items[i].title)]]
  IN SelectSeq(scored, LAMBDA h : h.score >= 0)

fuzzyFind(query, items, limit) ==
  LET hits == sortHits(collectHits(query, items))
  IN SubSeq(hits, 1, Min(limit, Len(hits)))

(***************************************************************************)
(* TextBuffer (editor/buffer.ts).  Each operation takes the buffer as the  *)
(* record [lines, dirty] and returns the buffer after it, with the cursor  *)
(* it returns where it returns one.                                        *)
(***************************************************************************)
\* this.lines[row] ?? ""
lineAt(ls, row) == IF row >= 0 /\ row < Len(ls) THEN ls[row + 1] ELSE <<>>

lineCount(ls) == Len(ls)

\* this.lines[row] = v; an assignment past the end grows the array, and the
\* holes it leaves read as "" through lineAt and join.
setLine(ls, row, v) ==
  IF row < 0 THEN ls
  ELSE [i \in 1..Max(Len(ls), row + 1) |->
          IF i = row + 1 THEN v ELSE IF i <= Len(ls) THEN ls[i] ELSE <<>>]

\* this.lines.splice(row, 1)
removeLine(ls, row) ==
  IF row >= 0 /\ row < Len(ls)
  THEN SubSeq(ls, 1, row) \o SubSeq(ls, row + 2, Len(ls))
  ELSE ls

\* this.lines.splice(at, 0, v)
spliceIn(ls, at, v) ==
  LET a == Max(0, Min(at, Len(ls)))
  IN SubSeq(ls, 1, a) \o <<v>> \o SubSeq(ls, a + 1, Len(ls))

\* loadFromFile dropping the empty piece after a final newline.
M_loadFromFile_DropTrailingEmpty(b, data) ==
  LET ls == split(replaceCRLF(data))
      kept == IF Len(ls) > 1 /\ ls[Len(ls)] = <<>> THEN SubSeq(ls, 1, Len(ls) - 1) ELSE ls
  IN [lines |-> kept, dirty |-> FALSE]

loadFromFile(b, data) ==
  LET ls == split(replaceCRLF(data))
  IN [lines |-> IF Len(ls) = 0 THEN << <<>> >> ELSE ls, dirty |-> FALSE]

\* The text handed to fs.writeFileSync.
saveData(b) == join(b.lines)

\* saveToFile leaving the dirty flag as it was.
M_saveToFile_KeepsDirty(b) == [lines |-> b.lines, dirty |-> b.dirty]

saveToFile(b) == [lines |-> b.lines, dirty |-> FALSE]

insertChar(b, row, col, ch) ==
  LET line == lineAt(b.lines, row)
  IN [lines |-> setLine(b.lines, row,
                        JSlice(line, 0, col) \o <<ch>> \o JSliceFrom(line, col)),
      dirty |-> TRUE]

\* deleteCharBackward reading prev.length after the join.
M_deleteCharBackward_ColAfterJoin(b, row, col) ==
  IF row < 0 THEN [lines |-> b.lines, dirty |-> b.dirty, row |-> 0, col |-> 0]
  ELSE LET line == lineAt(b.lines, row)
       IN IF col = 0
          THEN IF row = 0
               THEN [lines |-> b.lines, dirty |-> b.dirty, row |-> row, col |-> col]
               ELSE LET prev == lineAt(b.lines, row - 1)
                    IN [lines |-> removeLine(setLine(b.lines, row - 1, prev \o line), row),
                        dirty |-> TRUE, row |-> row - 1, col |-> Len(prev \o line)]
          ELSE [lines |-> setLine(b.lines, row,
                                  JSlice(line, 0, col - 1) \o JSliceFrom(line, col)),
                dirty |-> TRUE, row |-> row, col |-> col - 1]

\* deleteCharBackward without the row === 0 guard of the join branch.
M_deleteCharBackward_JoinAtTop(b, row, col) ==
  IF row < 0 THEN [lines |-> b.lines, dirty |-> b.dirty, row |-> 0, col |-> 0]
  ELSE LET line == lineAt(b.lines, row)
       IN IF col = 0
          THEN LET prev == lineAt(b.lines, row - 1)
               IN [lines |-> removeLine(setLine(b.lines, row - 1, prev \o line), row),
                   dirty |-> TRUE, row |-> Max(row - 1, 0), col |-> Len(prev)]
          ELSE [lines |-> setLine(b.lines, row,
                                  JSlice(line, 0, col - 1) \o JSliceFrom(line, col)),
                dirty |-> TRUE, row |-> row, col |-> col - 1]

deleteCharBackward(b, row, col) ==
  IF row < 0 THEN [lines |-> b.lines, dirty |-> b.dirty, row |-> 0, col |-> 0]
  ELSE LET line == lineAt(b.lines, row)
       IN IF col = 0
          THEN IF row = 0
               THEN [lines |-> b.lines, dirty |-> b.dirty, row |-> row, col |-> col]
               ELSE LET prev == lineAt(b.lines, row - 1)
                    IN [lines |-> removeLine(setLine(b.lines, row - 1, prev \o line), row),
                        dirty |-> TRUE, row |-> row - 1, col |-> Len(prev)]
          ELSE [lines |-> setLine(b.lines, row,
                                  JSlice(line, 0, col - 1) \o JSliceFrom(line, col)),
                dirty |-> TRUE, row |-> row, col |-> col - 1]

\* insertNewline splicing the tail in at row instead of row + 1.
M_insertNewline_TailFirst(b, row, col) ==
  LET line == lineAt(b.lines, row)
      before == JSlice(line, 0, col)
      after == JSliceFrom(line, col)
  IN [lines |-> spliceIn(setLine(b.lines, row, before), row, after),
      dirty |-> TRUE, row |-> row + 1, col |-> 0]

insertNewline(b, row, col) ==
  LET line == lineAt(b.lines, row)
      before == JSlice(line, 0, col)
      after == JSliceFrom(line, col)
  IN [lines |-> spliceIn(setLine(b.lines, row, before), row + 1, after),
      dirty |-> TRUE, row |-> row + 1, col |-> 0]

(***************************************************************************)
(* The leader trie and the command registry (editor/keymap.ts, main.ts).   *)
(***************************************************************************)
group(title, children) == [kind |-> "group", title |-> title, children |-> children]

cmd(title, commandId) == [kind |-> "cmd", title |-> title, commandId |-> commandId]

\* The null that stepLeader returns.
NoNode == [kind |-> "none"]

leaderMap ==
  group("leader",
        "f" :> group("files",
                     "f" :> cmd("Find file (open)", "file.open")
                     @@ "s" :> cmd("Save file", "file.save"))
        @@ "b" :> group("buffers", "b" :> cmd("List buffers", "buffer.list"))
        @@ " " :> cmd("Command palette", "palette.open")
        @@ "q" :> cmd("Quit", "quit"))

\* stepLeader staying on the group when the key is not bound.
M_stepLeader_StaysOnGroup(node, key) ==
  IF node.kind # "group" THEN NoNode
  ELSE IF key \in DOMAIN node.children THEN node.children[key] ELSE node

stepLeader(node, key) ==
  IF node.kind # "group" THEN NoNode
  ELSE IF key \in DOMAIN node.children THEN node.children[key] ELSE NoNode

T_fileOpen ==
  <<"F", "i", "n", "d", " ", "f", "i", "l", "e", " ", "(", "o", "p", "e", "n", " ", "p", "a", "t", "h", ")">>

T_fileSave ==
  <<"S", "a", "v", "e", " ", "f", "i", "l", "e">>

T_bufferList ==
  <<"L", "i", "s", "t", " ", "b", "u", "f", "f", "e", "r", "s", " ", "(", "M", "V", "P", ")">>

T_paletteOpen ==
  <<"C", "o", "m", "m", "a", "n", "d", " ", "p", "a", "l", "e", "t", "t", "e">>

T_quit ==
  <<"Q", "u", "i", "t">>

\* Object.values(commands): the registry in registration order.
commands ==
  << [id |-> "file.open", title |-> T_fileOpen],
     [id |-> "file.save", title |-> T_fileSave],
     [id |-> "buffer.list", title |-> T_bufferList],
     [id |-> "palette.open", title |-> T_paletteOpen],
     [id |-> "quit", title |-> T_quit] >>

CommandIds == {commands[i].id : i \in 1..Len(commands)}

\* The limit refreshPaletteList passes to fuzzyFind.
PaletteLimit == 30

\* The prefill of the file.open command, and the texts the palette matches on.
OpenFilePrefill ==
  <<"O", "p", "e", "n", " ", "f", "i", "l", "e", ":", " ">>

OpenFileHead ==
  <<"O", "p", "e", "n", " ", "f", "i", "l", "e", ":">>

OpenPathHead ==
  <<"O", "p", "e", "n", " ", "f", "i", "l", "e", " ", "p", "a", "t", "h", ":">>

NoResults ==
  <<"(", "n", "o", " ", "r", "e", "s", "u", "l", "t", "s", ")">>

\* s.replace(/^<head>\s*/, "")
stripHead(s, head) ==
  IF startsWith(s, head) THEN trimStart(SubSeq(s, Len(head) + 1, Len(s))) ELSE s

(***************************************************************************)
(* The file system and the process environment, as the editor sees them.   *)
(* The working directory is "/", which holds the regular file "f" and the  *)
(* version-control marker; every other name is missing.                    *)
(***************************************************************************)
NoPath == <<>>

Cwd == <<"/">>

\* path.resolve(p), relative to the working directory.
resolve(p) ==
  IF p = <<>> \/ p = <<".">> \/ p = <<".", ".">> THEN Cwd
  ELSE IF Head(p) = "/" THEN p ELSE Cwd \o p

existsSync(p) == p = Cwd \/ p = <<"/", "f">>

isDirectory(p) == p = Cwd

\* findProjectRoot(path.dirname(p))
findProjectRoot(p) == Cwd

\* What a file read may return; a file on disk is changed by other programs.
FileContents == { <<>>, <<"a", "\r", "\n">>, <<"\n", "a">> }

\* The outcome of the one file-system call a key event can make.
IOs == {[ok |-> TRUE, data |-> d] : d \in FileContents} \cup {[ok |-> FALSE, data |-> <<>>]}

(***************************************************************************)
(* Key events.  The terminal layer delivers each key as (name, ch); the     *)
(* control characters 0x1b and 0x7f are written "ESC" and "DEL".           *)
(***************************************************************************)
Key(name, ch) == [name |-> name, ch |-> ch]

K_escape == Key("escape", <<"ESC">>)
K_enter == Key("enter", <<"\n">>)
K_backspace == Key("backspace", <<"DEL">>)
K_space == Key("space", <<" ">>)
K_up == Key("up", <<>>)

Letter(c) == Key(c, <<c>>)

\* The key names of length 1 (name.length === 1).
SingleCharNames ==
  {"a", "b", "f", "h", "i", "j", "k", "l", "q", "s", "v", "x", "0", "$", ":", "."}

\* The keys drawn in NORMAL and VISUAL: every key normalModeKey tests for,
\* escape, and one key it has no branch for.
NormalKeys ==
  {K_space, K_escape, K_up}
    \cup {Letter(c) : c \in {"i", "v", ":", "h", "l", "j", "k", "0", "$"}}

\* The keys drawn in INSERT: the named keys insertModeKey tests for, one
\* printable character and one key that carries no character.
InsertKeys == {K_escape, K_backspace, K_enter, K_up, Letter("a")}

\* The keys drawn in LEADER: every key of the trie, escape and an unbound key.
LeaderKeys == {K_escape, K_space, K_up} \cup {Letter(c) : c \in {"f", "s", "b", "q", "a"}}

\* The keys drawn while the palette is open.
PaletteKeys == {K_escape, K_enter, K_backspace, K_up} \cup {Letter(c) : c \in {".", "f", "x"}}

(***************************************************************************)
(* The editor state (editor/state.ts, and the module-level state of        *)
(* main.ts), as one record:                                                *)
(*   lines, dirty         the TextBuffer buf                               *)
(*   mode, cursor, scrollTop, leader, statusMessage, filePath,             *)
(*   projectRoot, commandPaletteOpen     the fields of state               *)
(*   leaderNode           the module variable leaderNode                   *)
(*   paletteValue         the text held by the paletteInput widget         *)
(*   paletteItems         the items held by the paletteList widget         *)
(*   pending              the refresh callbacks scheduled by setTimeout    *)
(*   running              FALSE once the process has ended                 *)
(*   invoked              the commands run by the current key event        *)
(*   crashed              TRUE when the process ended on an uncaught error *)
(* state.leader.startedAt, state.commandLine and state.paletteQuery are    *)
(* never read and are left out.                                            *)
(***************************************************************************)
setStatus(s, msg) == [s EXCEPT !.statusMessage = msg]

clampCursor(s) ==
  LET row == Max(0, Min(s.cursor.row, lineCount(s.lines) - 1))
      line == lineAt(s.lines, row)
      col == Max(0, Min(s.cursor.col, Len(line)))
  IN [s EXCEPT !.cursor = [row |-> row, col |-> col]]

\* height is screen.height - 3 at the time of the call.
ensureCursorVisible(s, height) ==
  LET t1 == IF s.cursor.row < s.scrollTop THEN s.cursor.row ELSE s.scrollTop
      t2 == IF s.cursor.row >= t1 + height THEN s.cursor.row - height + 1 ELSE t1
      t3 == IF t2 < 0 THEN 0 ELSE t2
  IN [s EXCEPT !.scrollTop = t3]

setMode(s, m) == [s EXCEPT !.mode = m, !.statusMessage = <<>>]

startLeader(s) ==
  setMode([s EXCEPT !.leader = [active |-> TRUE, seq |-> <<>>],
                    !.leaderNode = leaderMap],
          "LEADER")

\* cancelLeader leaving the current node where the sequence had led.
M_cancelLeader_KeepsNode(s) ==
  setMode([s EXCEPT !.leader = [active |-> FALSE, seq |-> <<>>]], "NORMAL")

cancelLeader(s) ==
  setMode([s EXCEPT !.leader = [active |-> FALSE, seq |-> <<>>],
                    !.leaderNode = leaderMap],
          "NORMAL")

\* An uncaught exception leaves the handler at once and ends the process.
throw(s) == [s EXCEPT !.running = FALSE, !.crashed = TRUE]

\* refreshPaletteList testing the query for a dot or a slash only.
M_refreshPaletteList_NoBackslash(s, query) ==
  LET hits == fuzzyFind(query, commands, PaletteLimit)
      items == [i \in 1..Len(hits) |-> hits[i].item.title]
      q == trim(query)
      all == IF q # <<>> /\ \E i \in 1..Len(q) : q[i] \in {".", "/"}
             THEN << <<"O", "p", "e", "n", " ", "f", "i", "l", "e", " ",
                       "p", "a", "t", "h", ":", " ">> \o q >> \o items
             ELSE items
  IN [s EXCEPT !.paletteItems = IF Len(all) # 0 THEN all ELSE <<NoResults>>]

refreshPaletteList(s, query) ==
  LET hits == fuzzyFind(query, commands, PaletteLimit)
      items == [i \in 1..Len(hits) |-> hits[i].item.title]
      q == trim(query)
      all == IF q # <<>> /\ \E i \in 1..Len(q) : q[i] \in {".", "/", "\\"}
             THEN << <<"O", "p", "e", "n", " ", "f", "i", "l", "e", " ",
                       "p", "a", "t", "h", ":", " ">> \o q >> \o items
             ELSE items
  IN [s EXCEPT !.paletteItems = IF Len(all) # 0 THEN all ELSE <<NoResults>>]

\* openPalette computing the list from the prefill text.
M_openPalette_QueryIsPrefill(s, prefill) ==
  refreshPaletteList([s EXCEPT !.commandPaletteOpen = TRUE,
                               !.paletteValue = prefill],
                     prefill)

openPalette(s, prefill) ==
  refreshPaletteList([s EXCEPT !.commandPaletteOpen = TRUE,
                               !.paletteValue = prefill],
                     <<>>)

\* paletteBox.hide() takes both widgets off the screen.  Nothing reads the
\* text of the hidden input before openPalette sets it again, and the hidden
\* list is read only after a refresh, so the model forgets both on hiding.
closePalette(s) ==
  [s EXCEPT !.commandPaletteOpen = FALSE, !.paletteValue = <<>>,
            !.paletteItems = <<>>]

\* openFile moving the cursor home before it looks for the file.
M_openFile_HomeFirst(s, p, io) ==
  IF ~existsSync(p)
  THEN setStatus([s EXCEPT !.cursor = [row |-> 0, col |-> 0], !.scrollTop = 0],
                 <<"File not found.">>)
  ELSE IF isDirectory(p) \/ ~io.ok THEN throw(s)
  ELSE LET b == loadFromFile([lines |-> s.lines, dirty |-> s.dirty], io.data)
       IN [s EXCEPT !.lines = b.lines, !.dirty = b.dirty,
                    !.filePath = p,
                    !.projectRoot = findProjectRoot(p),
                    !.cursor = [row |-> 0, col |-> 0],
                    !.scrollTop = 0,
                    !.statusMessage = <<"Opened.">>]

openFile(s, p, io) ==
  IF ~existsSync(p) THEN setStatus(s, <<"File not found.">>)
  ELSE IF isDirectory(p) \/ ~io.ok THEN throw(s)
  ELSE LET b == loadFromFile([lines |-> s.lines, dirty |-> s.dirty], io.data)
       IN [s EXCEPT !.lines = b.lines, !.dirty = b.dirty,
                    !.filePath = p,
                    !.projectRoot = findProjectRoot(p),
                    !.cursor = [row |-> 0, col |-> 0],
                    !.scrollTop = 0,
                    !.statusMessage = <<"Opened.">>]

\* commands[id].run()
runCommand(s, id, io) ==
  LET r == [s EXCEPT !.invoked = Append(s.invoked, id)]
  IN CASE id = "file.open" -> openPalette(r, OpenFilePrefill)
       [] id = "file.save" ->
            IF r.filePath = NoPath
            THEN setStatus(r, <<"No file path. Use SPC f f and type one.">>)
            ELSE IF ~io.ok THEN throw(r)
            ELSE LET b == saveToFile([lines |-> r.lines, dirty |-> r.dirty])
                 IN [r EXCEPT !.lines = b.lines, !.dirty = b.dirty,
                              !.statusMessage = <<"Saved.">>]
       [] id = "buffer.list" -> setStatus(r, <<"MVP: single buffer only (for now).">>)
       [] id = "palette.open" -> openPalette(r, <<>>)
       [] id = "quit" -> [r EXCEPT !.running = FALSE]

\* handleLeaderKey running the bound command before leaving LEADER, and
\* running it again after.
M_handleLeaderKey_RunTwice(s, k, io) ==
  LET key == IF k = "space" THEN " " ELSE k
      next == stepLeader(s.leaderNode, key)
  IN IF next.kind = "none"
     THEN cancelLeader(setStatus(s, <<"No binding:", "SPC">> \o s.leader.seq \o <<key>>))
     ELSE LET r == [s EXCEPT !.leader.seq = Append(s.leader.seq, key)]
          IN IF next.kind = "cmd"
             THEN runCommand(cancelLeader(runCommand(r, next.commandId, io)),
                             next.commandId, io)
             ELSE [r EXCEPT !.leaderNode = next]

\* handleLeaderKey running the bound command without leaving LEADER.
M_handleLeaderKey_StaysInLeader(s, k, io) ==
  LET key == IF k = "space" THEN " " ELSE k
      next == stepLeader(s.leaderNode, key)
  IN IF next.kind = "none"
     THEN cancelLeader(setStatus(s, <<"No binding:", "SPC">> \o s.leader.seq \o <<key>>))
     ELSE LET r == [s EXCEPT !.leader.seq = Append(s.leader.seq, key)]
          IN IF next.kind = "cmd"
             THEN runCommand(r, next.commandId, io)
             ELSE [r EXCEPT !.leaderNode = next]

handleLeaderKey(s, k, io) ==
  LET key == IF k = "space" THEN " " ELSE k
      next == stepLeader(s.leaderNode, key)
  IN IF next.kind = "none"
     THEN cancelLeader(setStatus(s, <<"No binding:", "SPC">> \o s.leader.seq \o <<key>>))
     ELSE LET r == [s EXCEPT !.leader.seq = Append(s.leader.seq, key)]
          IN IF next.kind = "cmd"
             THEN runCommand(cancelLeader(r), next.commandId, io)
             ELSE [r EXCEPT !.leaderNode = next]

\* moveCursor without the call of clampCursor.
M_moveCursor_NoClamp(s, dr, dc, height) ==
  ensureCursorVisible(
    [s EXCEPT !.cursor = [row |-> s.cursor.row + dr, col |-> s.cursor.col + dc]],
    height)

moveCursor(s, dr, dc, height) ==
  ensureCursorVisible(
    clampCursor([s EXCEPT !.cursor = [row |-> s.cursor.row + dr,
                                      col |-> s.cursor.col + dc]]),
    height)

normalModeKey(s, name, ch, height) ==
  CASE name = "space" -> startLeader(s)
    [] name = "i" -> setMode(s, "INSERT")
    [] name = "v" -> setMode(s, "VISUAL")
    [] name = ":" -> openPalette(s, <<>>)
    [] name = "h" -> moveCursor(s, 0, -1, height)
    [] name = "l" -> moveCursor(s, 0, 1, height)
    [] name = "j" -> moveCursor(s, 1, 0, height)
    [] name = "k" -> moveCursor(s, -1, 0, height)
    [] name = "0" -> ensureCursorVisible([s EXCEPT !.cursor.col = 0], height)
    [] name = "$" ->
         ensureCursorVisible(
           [s EXCEPT !.cursor.col = Len(lineAt(s.lines, s.cursor.row))], height)
    [] OTHER -> s

\* insertModeKey with an escape that steps the cursor one column back.
M_insertModeKey_EscapeStepsBack(s, name, ch, height) ==
  IF name = "escape"
  THEN setMode([s EXCEPT !.cursor.col = Max(0, s.cursor.col - 1)], "NORMAL")
  ELSE IF name = "backspace"
  THEN LET r == deleteCharBackward([lines |-> s.lines, dirty |-> s.dirty],
                                   s.cursor.row, s.cursor.col)
       IN ensureCursorVisible(
            [s EXCEPT !.lines = r.lines, !.dirty = r.dirty,
                      !.cursor = [row |-> r.row, col |-> r.col]], height)
  ELSE IF name = "enter"
  THEN LET r == insertNewline([lines |-> s.lines, dirty |-> s.dirty],
                              s.cursor.row, s.cursor.col)
       IN ensureCursorVisible(
            [s EXCEPT !.lines = r.lines, !.dirty = r.dirty,
                      !.cursor = [row |-> r.row, col |-> r.col]], height)
  ELSE IF Len(ch) = 1
  THEN LET b == insertChar([lines |-> s.lines, dirty |-> s.dirty],
                           s.cursor.row, s.cursor.col, ch[1])
       IN ensureCursorVisible(
            [s EXCEPT !.lines = b.lines, !.dirty = b.dirty,
                      !.cursor.col = s.cursor.col + 1], height)
  ELSE s

insertModeKey(s, name, ch, height) ==
  IF name = "escape" THEN setMode(s, "NORMAL")
  ELSE IF name = "backspace"
  THEN LET r == deleteCharBackward([lines |-> s.lines, dirty |-> s.dirty],
                                   s.cursor.row, s.cursor.col)
       IN ensureCursorVisible(
            [s EXCEPT !.lines = r.lines, !.dirty = r.dirty,
                      !.cursor = [row |-> r.row, col |-> r.col]], height)
  ELSE IF name = "enter"
  THEN LET r == insertNewline([lines |-> s.lines, dirty |-> s.dirty],
                              s.cursor.row, s.cursor.col)
       IN ensureCursorVisible(
            [s EXCEPT !.lines = r.lines, !.dirty = r.dirty,
                      !.cursor = [row |-> r.row, col |-> r.col]], height)
  ELSE IF Len(ch) = 1
  THEN LET b == insertChar([lines |-> s.lines, dirty |-> s.dirty],
                           s.cursor.row, s.cursor.col, ch[1])
       IN ensureCursorVisible(
            [s EXCEPT !.lines = b.lines, !.dirty = b.dirty,
                      !.cursor.col = s.cursor.col + 1], height)
  ELSE s

\* The paletteInput widget (a textbox reading input while it has the focus)
\* edits its own value after the screen's handler has seen the key.
textboxInput(s, key) ==
  IF key.name = "backspace"
  THEN [s EXCEPT !.paletteValue = SubSeq(@, 1, Len(@) - 1)]
  ELSE IF Len(key.ch) = 1 /\ key.ch[1] \notin {"ESC", "DEL", "\n"}
  THEN [s EXCEPT !.paletteValue = @ \o key.ch]
  ELSE s

\* paletteList.getItem(paletteList.selected)?.getText() ?? "": every refresh
\* selects item 0 and nothing else moves the selection.
selectedItem(s) == IF Len(s.paletteItems) > 0 THEN s.paletteItems[1] ELSE <<>>

\* The enter branch reporting a confirm that matched nothing.
M_paletteConfirm_ReportsNoMatch(s, io) ==
  LET selected == selectedItem(s)
      v == trim(s.paletteValue)
  IN IF startsWith(selected, OpenPathHead)
     THEN openFile(closePalette(s), resolve(trim(stripHead(selected, OpenPathHead))), io)
     ELSE IF startsWith(v, OpenFileHead)
     THEN openFile(closePalette(s), resolve(trim(stripHead(v, OpenFileHead))), io)
     ELSE LET found == {i \in 1..Len(commands) : commands[i].title = selected}
          IN IF found = {} THEN setStatus(closePalette(s), <<"No such command.">>)
             ELSE runCommand(closePalette(s),
                             commands[CHOOSE i \in found : \A j \in found : i <= j].id,
                             io)

\* The enter branch of the palette handler.
paletteConfirm(s, io) ==
  LET selected == selectedItem(s)
      v == trim(s.paletteValue)
  IN IF startsWith(selected, OpenPathHead)
     THEN openFile(closePalette(s), resolve(trim(stripHead(selected, OpenPathHead))), io)
     ELSE IF startsWith(v, OpenFileHead)
     THEN openFile(closePalette(s), resolve(trim(stripHead(v, OpenFileHead))), io)
     ELSE LET found == {i \in 1..Len(commands) : commands[i].title = selected}
          IN IF found = {} THEN closePalette(s)
             ELSE runCommand(closePalette(s),
                             commands[CHOOSE i \in found : \A j \in found : i <= j].id,
                             io)

\* The palette branch with escape also resetting the mode.
M_paletteKey_EscapeResetsMode(s, key, io) ==
  IF key.name = "escape" THEN setMode(closePalette(s), "NORMAL")
  ELSE IF key.name \in SingleCharNames \/ key.name \in {"backspace", "delete"}
  THEN textboxInput([s EXCEPT !.pending = @ + 1], key)
  ELSE IF key.name = "enter" THEN paletteConfirm(s, io)
  ELSE textboxInput(s, key)

\* The palette branch of the keypress handler.
paletteKey(s, key, io) ==
  IF key.name = "escape" THEN closePalette(s)
  ELSE IF key.name \in SingleCharNames \/ key.name \in {"backspace", "delete"}
  THEN textboxInput([s EXCEPT !.pending = @ + 1], key)
  ELSE IF key.name = "enter" THEN paletteConfirm(s, io)
  ELSE textboxInput(s, key)

\* The keypress handler with a VISUAL branch that ignores the key "i".
M_keypress_VisualIgnoresInsert(s0, key, io, height) ==
  LET s == [s0 EXCEPT !.invoked = <<>>]
  IN IF s.commandPaletteOpen THEN paletteKey(s, key, io)
     ELSE IF s.mode = "LEADER"
     THEN IF key.name = "escape" THEN cancelLeader(s)
          ELSE handleLeaderKey(s, key.name, io)
     ELSE IF s.mode = "NORMAL" THEN normalModeKey(s, key.name, key.ch, height)
     ELSE IF s.mode = "INSERT" THEN insertModeKey(s, key.name, key.ch, height)
     ELSE IF s.mode = "VISUAL"
     THEN IF key.name = "escape" THEN setMode(s, "NORMAL")
          ELSE IF key.name = "i" THEN s
          ELSE normalModeKey(s, key.name, key.ch, height)
     ELSE s

\* screen.on("keypress", ...): the whole handler for one key event.
keypress(s0, key, io, height) ==
  LET s == [s0 EXCEPT !.invoked = <<>>]
  IN IF s.commandPaletteOpen THEN paletteKey(s, key, io)
     ELSE IF s.mode = "LEADER"
     THEN IF key.name = "escape" THEN cancelLeader(s)
          ELSE handleLeaderKey(s, key.name, io)
     ELSE IF s.mode = "NORMAL" THEN normalModeKey(s, key.name, key.ch, height)
     ELSE IF s.mode = "INSERT" THEN insertModeKey(s, key.name, key.ch, height)
     ELSE IF s.mode = "VISUAL"
     THEN IF key.name = "escape" THEN setMode(s, "NORMAL")
          ELSE normalModeKey(s, key.name, key.ch, height)
     ELSE s

\* The callback the palette handler schedules with setTimeout(..., 0).
refreshCallback(s) ==
  refreshPaletteList(s, stripHead(s.paletteValue, OpenFileHead))

(***************************************************************************)
(* The state machine.                                                      *)
(***************************************************************************)
VARIABLES lines, dirty, mode, cursor, scrollTop, leader, leaderNode,
          commandPaletteOpen, paletteValue, paletteItems, pending,
          statusMessage, filePath, projectRoot, running, invoked, crashed,
          height, fx

vars == <<lines, dirty, mode, cursor, scrollTop, leader, leaderNode,
          commandPaletteOpen, paletteValue, paletteItems, pending,
          statusMessage, filePath, projectRoot, running, invoked, crashed,
          height, fx>>

editorVars == <<lines, dirty, mode, cursor, scrollTop, leader, leaderNode,
                commandPaletteOpen, paletteValue, paletteItems, pending,
                statusMessage, filePath, projectRoot, running, invoked, crashed,
                height>>

Cur ==
  [lines |-> lines, dirty |-> dirty, mode |-> mode, cursor |-> cursor,
   scrollTop |-> scrollTop, leader |-> leader, leaderNode |-> leaderNode,
   commandPaletteOpen |-> commandPaletteOpen, paletteValue |-> paletteValue,
   paletteItems |-> paletteItems, pending |-> pending,
   statusMessage |-> statusMessage, filePath |-> filePath,
   projectRoot |-> projectRoot, running |-> running, invoked |-> invoked,
   crashed |-> crashed]

Commit(s) ==
  /\ lines' = s.lines
  /\ dirty' = s.dirty
  /\ mode' = s.mode
  /\ cursor' = s.cursor
  /\ scrollTop' = s.scrollTop
  /\ leader' = s.leader
  /\ leaderNode' = s.leaderNode
  /\ commandPaletteOpen' = s.commandPaletteOpen
  /\ paletteValue' = s.paletteValue
  /\ paletteItems' = s.paletteItems
  /\ pending' = s.pending
  /\ statusMessage' = s.statusMessage
  /\ filePath' = s.filePath
  /\ projectRoot' = s.projectRoot
  /\ running' = s.running
  /\ invoked' = s.invoked
  /\ crashed' = s.crashed

\* const buf = new TextBuffer(); const state = {...}; let leaderNode = leaderMap
state0 ==
  [lines |-> << <<>> >>, dirty |-> FALSE, mode |-> "NORMAL",
   cursor |-> [row |-> 0, col |-> 0], scrollTop |-> 0,
   leader |-> [active |-> FALSE, seq |-> <<>>], leaderNode |-> leaderMap,
   commandPaletteOpen |-> FALSE, paletteValue |-> <<>>, paletteItems |-> <<>>,
   pending |-> 0, statusMessage |-> <<>>, filePath |-> NoPath,
   projectRoot |-> NoPath, running |-> TRUE, invoked |-> <<>>,
   crashed |-> FALSE]

\* The heights of the editor area (screen.height - 3) that are drawn.
Heights == {1, 2}

\* The paths process.argv[2] is drawn from: none, the file and a missing name.
BootArgs == {<<>>, <<"f">>, <<"x">>}

\* The boot section: open the file named on the command line, if any.
boot(arg, io) ==
  IF arg = <<>> THEN setStatus(state0, <<"SPC f f to open a file">>)
  ELSE IF existsSync(resolve(arg)) THEN openFile(state0, resolve(arg), io)
  ELSE setStatus(state0, <<"File not found: ", resolve(arg)>>)

NoFx == [pc |-> "off"]

\* The branch of the handler that a key event takes in state s.
Route(s) ==
  IF s.commandPaletteOpen THEN "palette"
  ELSE IF s.mode = "LEADER" THEN "leader"
  ELSE IF s.mode = "NORMAL" THEN "normal"
  ELSE IF s.mode = "INSERT" THEN "insert"
  ELSE "visual"

RECURSIVE TotalChars(_)
TotalChars(ls) == IF ls = <<>> THEN 0 ELSE Len(Head(ls)) + TotalChars(Tail(ls))

\* The keys drawn in state s, within the bounds of the model.  In the palette
\* backspace is drawn to delete typed text, not the prefill.
KeysIn(s) ==
  CASE Route(s) = "palette" ->
         {k \in PaletteKeys :
            /\ (k.name \in SingleCharNames \/ k.name = "backspace")
                 => s.pending < MaxPending
            /\ k.name = "backspace"
                 => s.paletteValue \notin {<<>>, OpenFilePrefill}
            /\ k.name \in SingleCharNames
                 => Len(s.paletteValue)
                      < MaxQuery + (IF startsWith(s.paletteValue, OpenFilePrefill)
                                    THEN Len(OpenFilePrefill) ELSE 0)}
    [] Route(s) = "leader" -> LeaderKeys
    [] Route(s) = "insert" ->
         {k \in InsertKeys :
            /\ k.name \in {"enter", "a"}
                 => Len(s.lines) + TotalChars(s.lines) < MaxSize}
    [] OTHER -> NormalKeys

\* The outcomes drawn for the file-system call of a key event: only a palette
\* confirm and a leader key can reach openFile or saveToFile.
IOsIn(s, key) ==
  IF (Route(s) = "palette" /\ key.name = "enter") \/ Route(s) = "leader"
  THEN IOs
  ELSE {[ok |-> TRUE, data |-> <<>>]}

EditorInit ==
  /\ \E arg \in BootArgs, io \in {i \in IOs : i.ok} :
       /\ lines = boot(arg, io).lines
       /\ dirty = boot(arg, io).dirty
       /\ cursor = boot(arg, io).cursor
       /\ scrollTop = boot(arg, io).scrollTop
       /\ statusMessage = boot(arg, io).statusMessage
       /\ filePath = boot(arg, io).filePath
       /\ projectRoot = boot(arg, io).projectRoot
  /\ mode = state0.mode
  /\ leader = state0.leader
  /\ leaderNode = state0.leaderNode
  /\ commandPaletteOpen = state0.commandPaletteOpen
  /\ paletteValue = state0.paletteValue
  /\ paletteItems = state0.paletteItems
  /\ pending = state0.pending
  /\ running = state0.running
  /\ invoked = state0.invoked
  /\ crashed = state0.crashed
  /\ height \in Heights

Init == EditorInit /\ fx = NoFx

\* The key event (key, io), handled to completion.
KeyEvent(key, io) ==
  /\ running
  /\ Commit(keypress(Cur, key, io, height))
  /\ UNCHANGED <<height, fx>>

KeyPress == \E key \in KeysIn(Cur) : \E io \in IOsIn(Cur, key) : KeyEvent(key, io)

\* A scheduled refresh callback runs.
Timer ==
  /\ running
  /\ pending > 0
  /\ Commit([refreshCallback(Cur) EXCEPT !.pending = pending - 1])
  /\ UNCHANGED <<height, fx>>

\* The terminal is resized; no handler of the editor runs.
Resize ==
  /\ running
  /\ \E h \in Heights : h # height /\ height' = h
  /\ UNCHANGED <<lines, dirty, mode, cursor, scrollTop, leader, leaderNode,
                 commandPaletteOpen, paletteValue, paletteItems, pending,
                 statusMessage, filePath, projectRoot, running, invoked,
                 crashed, fx>>

Next == KeyPress \/ Timer \/ Resize

Spec == Init /\ [][Next]_vars

(***************************************************************************)
(* Properties of the editor state machine.                                 *)
(***************************************************************************)
\* The key token handleLeaderKey looks up for a key event.
LeaderToken(key) == IF key.name = "space" THEN " " ELSE key.name

\* C1: in every reachable state the buffer holds at least one line.
C1_BufferNeverEmpty == lineCount(lines) >= 1

\* A file was loaded and edited in INSERT, and deleting has brought the
\* buffer back to a single empty line.
C1_Witness ==
  /\ filePath # NoPath
  /\ mode = "INSERT"
  /\ dirty
  /\ lines = << <<>> >>

\* C2: in every reachable state the cursor is on a line of the buffer and at
\* a column between 0 and the length of that line.
C2_CursorInRange ==
  /\ 0 <= cursor.row
  /\ cursor.row < lineCount(lines)
  /\ 0 <= cursor.col
  /\ cursor.col <= Len(lineAt(lines, cursor.row))

\* The cursor stands at the end of the last line of an edited buffer of more
\* than one line.
C2_Witness ==
  /\ dirty
  /\ cursor.row > 0
  /\ cursor.row = lineCount(lines) - 1
  /\ cursor.col > 0
  /\ cursor.col = Len(lineAt(lines, cursor.row))

ScrollInvariant ==
  /\ 0 <= scrollTop
  /\ scrollTop <= cursor.row
  /\ cursor.row < scrollTop + height

\* C3: whenever a key event has been handled, and so the next frame is
\* drawn, 0 <= scrollTop <= cursor.row < scrollTop + viewportHeight, also
\* when the display area was resized before the key.
C3_ScrollInvariantAtEveryFrame == [][KeyPress => ScrollInvariant']_vars

\* The message ends with the key tokens seq.
NamesSequence(msg, seq) ==
  /\ Len(msg) >= Len(seq)
  /\ SubSeq(msg, Len(msg) - Len(seq) + 1, Len(msg)) = seq

\* C4: a key without a child under the current node, pressed in LEADER,
\* leaves the mode NORMAL, the LeaderState discarded and a status message
\* that names the leader marker, the accepted keys and the failing key.
C4_NoBindingIsReported ==
  [][\A key \in LeaderKeys : \A io \in IOs :
       ( /\ ~commandPaletteOpen
         /\ mode = "LEADER"
         /\ key.name # "escape"
         /\ stepLeader(leaderNode, LeaderToken(key)).kind = "none"
         /\ KeyEvent(key, io) )
       => /\ mode' = "NORMAL"
          /\ leader' = [active |-> FALSE, seq |-> <<>>]
          /\ leaderNode' = leaderMap
          /\ NamesSequence(statusMessage',
                           <<"SPC">> \o leader.seq \o <<LeaderToken(key)>>)]_vars

\* C5: a key that resolves to a Binding in LEADER runs the bound command
\* once and no other command, and leaves the mode NORMAL and the LeaderState
\* discarded.
C5_BindingRunsItsCommandOnce ==
  [][\A key \in LeaderKeys : \A io \in IOs :
       ( /\ ~commandPaletteOpen
         /\ mode = "LEADER"
         /\ key.name # "escape"
         /\ stepLeader(leaderNode, LeaderToken(key)).kind = "cmd"
         /\ KeyEvent(key, io) )
       => /\ invoked' = <<stepLeader(leaderNode, LeaderToken(key)).commandId>>
          /\ mode' = "NORMAL"
          /\ leader' = [active |-> FALSE, seq |-> <<>>]
          /\ leaderNode' = leaderMap]_vars

\* The leader sequence f, s has run file.save on a buffer without a path.
C5_Witness ==
  /\ invoked = <<"file.save">>
  /\ filePath = NoPath
  /\ statusMessage = <<"No file path. Use SPC f f and type one.">>
  /\ mode = "NORMAL"
  /\ ~leader.active

\* What a key handled by the open palette leaves as it was: the mode always;
\* buffer, dirty flag, cursor, scrollTop and LeaderState unless the key is
\* enter; and everything but the palette itself when the key is escape.
PaletteKeyKeeps(key) ==
  /\ mode' = mode
  /\ key.name # "enter"
       => UNCHANGED <<mode, lines, dirty, cursor, scrollTop, leader, leaderNode>>
  /\ key.name = "escape"
       => /\ ~commandPaletteOpen'
          /\ UNCHANGED <<mode, lines, dirty, cursor, scrollTop, leader,
                         leaderNode, statusMessage, filePath, projectRoot,
                         pending, running, crashed>>

\* C6: while the palette is open a key other than enter leaves mode, buffer,
\* dirty flag, cursor, scrollTop and LeaderState as they are, escape changes
\* nothing but the palette, and no key changes the mode: every step is either
\* one that keeps all this or not the handling of that key.
C6_PaletteInterceptsKeys ==
  [][commandPaletteOpen
       => \A key \in PaletteKeys :
            PaletteKeyKeeps(key) \/ \A io \in IOs : ~KeyEvent(key, io)]_vars

\* A character was typed into the palette over a VISUAL-mode editor with an
\* edited buffer.
C6_Witness ==
  /\ commandPaletteOpen
  /\ paletteValue # <<>>
  /\ pending > 0
  /\ mode = "VISUAL"
  /\ dirty

(***************************************************************************)
(* The pure functions, each applied to inputs drawn from bounded sets.     *)
(* The editor is idle in these specifications; fx holds the inputs and,    *)
(* once the function has run, its result.                                  *)
(***************************************************************************)
EditorIdle ==
  /\ lines = state0.lines
  /\ dirty = state0.dirty
  /\ mode = state0.mode
  /\ cursor = state0.cursor
  /\ scrollTop = state0.scrollTop
  /\ leader = state0.leader
  /\ leaderNode = state0.leaderNode
  /\ commandPaletteOpen = state0.commandPaletteOpen
  /\ paletteValue = state0.paletteValue
  /\ paletteItems = state0.paletteItems
  /\ pending = state0.pending
  /\ statusMessage = state0.statusMessage
  /\ filePath = state0.filePath
  /\ projectRoot = state0.projectRoot
  /\ running = state0.running
  /\ invoked = state0.invoked
  /\ crashed = state0.crashed
  /\ height = 1

StringsUpTo(S, n) == UNION {[1..k -> S] : k \in 0..n}

\* n characters that occur in no query.
Pad(n) == [i \in 1..n |-> "x"]

FuzzyAlphabet == {"a", "A", "b"}

\* Calls with longer arguments.
FuzzyExamples ==
  { [query |-> <<"f", "s">>,
     text |-> <<"f", "i", "l", "e", ".", "s", "a", "v", "e">>],
    [query |-> <<"F", "S">>,
     text |-> <<"S", "a", "v", "e", " ", "f", "i", "l", "e">>] }

\* fuzzyScore(query, text) on a text of up to MaxPad padding characters
\* followed by up to MaxText characters of the alphabet, and on the examples.
FuzzyInit ==
  /\ EditorIdle
  /\ \/ \E q \in StringsUpTo(FuzzyAlphabet, MaxText), n \in 0..MaxPad,
           t \in StringsUpTo(FuzzyAlphabet, MaxText) :
          fx = [pc |-> "input", query |-> q, text |-> Pad(n) \o t]
     \/ \E e \in FuzzyExamples :
          fx = [pc |-> "input", query |-> e.query, text |-> e.text]

FuzzyScoreCall ==
  /\ fx.pc = "input"
  /\ fx' = [pc |-> "scored", query |-> fx.query, text |-> fx.text,
            out |-> fuzzyScore(fx.query, fx.text)]
  /\ UNCHANGED editorVars

SpecFuzzy == FuzzyInit /\ [][FuzzyScoreCall]_vars

\* q is a subsequence of t.
RECURSIVE IsSubsequence(_, _)
IsSubsequence(q, t) ==
  IF q = <<>> THEN TRUE
  ELSE IF t = <<>> THEN FALSE
  ELSE IF Head(q) = Head(t) THEN IsSubsequence(Tail(q), Tail(t))
  ELSE IsSubsequence(q, Tail(t))

\* C7: fuzzyScore returns the no-match value exactly when the query, compared
\* without regard to case, is not a subsequence of the text.
C7_NoMatchIffNotSubsequence ==
  fx.pc = "scored"
    => ((fx.out = NoMatch)
          <=> ~IsSubsequence(toLowerCase(fx.query), toLowerCase(fx.text)))

FindLabels ==
  { <<"a">>, <<"A">>, <<"a", "b">>, <<"b", "a">>, <<"b">>, Pad(MaxPad) \o <<"a">> }

FindQueries == { <<>>, <<"a">>, <<"b">> }

\* The items of a list of labels: each item knows its place in the input.
ItemsOf(labels) == [i \in 1..Len(labels) |-> [id |-> i, title |-> labels[i]]]

FindInit ==
  /\ EditorIdle
  /\ \E q \in FindQueries, ls \in StringsUpTo(FindLabels, MaxItems), lim \in 0..MaxLimit :
       fx = [pc |-> "input", query |-> q, items |-> ItemsOf(ls), limit |-> lim]

FuzzyFindCall ==
  /\ fx.pc = "input"
  /\ fx' = [pc |-> "found", query |-> fx.query, items |-> fx.items,
            limit |-> fx.limit, out |-> fuzzyFind(fx.query, fx.items, fx.limit)]
  /\ UNCHANGED editorVars

SpecFind == FindInit /\ [][FuzzyFindCall]_vars

\* Hit g ranks before hit h: a higher score, or the same score and an
\* earlier place in the input.
RanksBefore(g, h) ==
  g.score > h.score \/ (g.score = h.score /\ g.item.id < h.item.id)

\* The items of the input that fuzzyFind keeps, each with its score.
HitSet(query, items) ==
  {[item |-> items[i], score |-> fuzzyScore(query, items[i].title)] :
     i \in {j \in 1..Len(items) : fuzzyScore(query, items[j].title) >= 0}}

\* C8: the result of findRanked is in non-increasing score order with equal
\* scores in input order, has at most limit elements, and these are the
\* first of that ordering of all the hits.
C8_RankedStableTruncated ==
  fx.pc = "found"
    => LET r == fx.out
           all == HitSet(fx.query, fx.items)
           got == {r[i] : i \in 1..Len(r)}
       IN /\ Len(r) = Min(fx.limit, Cardinality(all))
          /\ got \subseteq all
          /\ \A i, j \in 1..Len(r) : i < j => RanksBefore(r[i], r[j])
          /\ \A g \in got : \A h \in all \ got : RanksBefore(g, h)

\* A result that holds two hits of the same score and leaves a hit out.
C8_Witness ==
  /\ fx.pc = "found"
  /\ Len(fx.out) = 2
  /\ fx.out[1].score = fx.out[2].score
  /\ fx.out[1].item.title # fx.out[2].item.title
  /\ Cardinality(HitSet(fx.query, fx.items)) > fx.limit

FileAlphabet == {"a", "\n", "\r"}

FileInit ==
  /\ EditorIdle
  /\ \E d \in StringsUpTo(FileAlphabet, MaxData) :
       fx = [pc |-> "file", data |-> d]

\* buf.loadFromFile(path) on a new TextBuffer, the file holding fx.data.
LoadCall ==
  /\ fx.pc = "file"
  /\ fx' = [pc |-> "loaded", data |-> fx.data,
            buf |-> loadFromFile([lines |-> << <<>> >>, dirty |-> FALSE], fx.data)]
  /\ UNCHANGED editorVars

\* buf.saveToFile(path) with no edit in between.
SaveCall ==
  /\ fx.pc = "loaded"
  /\ fx' = [pc |-> "saved", data |-> fx.data, buf |-> saveToFile(fx.buf),
            written |-> saveData(fx.buf)]
  /\ UNCHANGED editorVars

SpecFile == FileInit /\ [][LoadCall \/ SaveCall]_vars

HasCRLF(d) == \E i \in 1..(Len(d) - 1) : d[i] = "\r" /\ d[i + 1] = "\n"

\* C9: a file without a CR-LF pair that is loaded and saved without an edit
\* is written back as it was read.
C9_LoadSaveRoundTrip ==
  (fx.pc = "saved" /\ ~HasCRLF(fx.data)) => fx.written = fx.data

\* A file that ends in a newline and holds a lone CR was loaded and saved.
C9_Witness ==
  /\ fx.pc = "saved"
  /\ ~HasCRLF(fx.data)
  /\ Len(fx.data) >= 2
  /\ fx.data[1] = "\r"
  /\ fx.data[Len(fx.data)] = "\n"
  /\ fx.written = fx.data

\* The lines the buffers of SpecBuf are made of.
BufLines ==
  { <<>>, <<"a">>, <<"b", "c">>, <<"a", "b", "c">>, <<"d", "e", "f">> }

\* A buffer of up to MaxBufLines lines, a row of it and a column from one
\* before the line to one past its end.
BufInit ==
  /\ EditorIdle
  /\ \E ls \in StringsUpTo(BufLines, MaxBufLines) \ {<<>>}, d \in BOOLEAN :
       \E row \in 0..(Len(ls) - 1) :
         \E col \in (-1)..(Len(ls[row + 1]) + 1), ch \in {"z"} :
           fx = [pc |-> "input", lines |-> ls, dirty |-> d, row |-> row,
                 col |-> col, ch |-> ch]

BufResult(op, out) ==
  [pc |-> op, lines |-> fx.lines, dirty |-> fx.dirty, row |-> fx.row,
   col |-> fx.col, ch |-> fx.ch, out |-> out]

DeleteCall ==
  /\ fx.pc = "input"
  /\ fx' = BufResult("deleted",
                     deleteCharBackward([lines |-> fx.lines, dirty |-> fx.dirty],
                                        fx.row, fx.col))
  /\ UNCHANGED editorVars

NewlineCall ==
  /\ fx.pc = "input"
  /\ fx' = BufResult("split",
                     insertNewline([lines |-> fx.lines, dirty |-> fx.dirty],
                                   fx.row, fx.col))
  /\ UNCHANGED editorVars

InsertCall ==
  /\ fx.pc = "input"
  /\ fx' = BufResult("inserted",
                     insertChar([lines |-> fx.lines, dirty |-> fx.dirty],
                                fx.row, fx.col, fx.ch))
  /\ UNCHANGED editorVars

SpecBuf == BufInit /\ [][DeleteCall \/ NewlineCall \/ InsertCall]_vars

\* The position (row, col) lies in the buffer ls.
InRange(ls, row, col) ==
  /\ 0 <= row
  /\ row < Len(ls)
  /\ 0 <= col
  /\ col <= Len(ls[row + 1])

\* C10: deleteCharBackward on an in-range position removes the character
\* before col and returns (row, col - 1) when col > 0; joins line row onto
\* line row - 1 and returns (row - 1, former length of line row - 1) when
\* col = 0 and row > 0; and changes nothing, dirty included, at (0, 0).
C10_DeleteCharBackward ==
  (fx.pc = "deleted" /\ InRange(fx.lines, fx.row, fx.col))
    => LET ls == fx.lines
           r == fx.row + 1
           line == ls[r]
           o == fx.out
       IN /\ fx.col > 0
               => /\ o.lines = [ls EXCEPT ![r] = SubSeq(line, 1, fx.col - 1)
                                                   \o SubSeq(line, fx.col + 1, Len(line))]
                  /\ o.row = fx.row
                  /\ o.col = fx.col - 1
                  /\ o.dirty
          /\ (fx.col = 0 /\ fx.row > 0)
               => /\ Len(o.lines) = Len(ls) - 1
                  /\ \A i \in 1..Len(o.lines) :
                       o.lines[i] = IF i < r - 1 THEN ls[i]
                                    ELSE IF i = r - 1 THEN ls[r - 1] \o line
                                    ELSE ls[i + 1]
                  /\ o.row = fx.row - 1
                  /\ o.col = Len(ls[r - 1])
                  /\ o.dirty
          /\ (fx.col = 0 /\ fx.row = 0)
               => /\ o.lines = ls
                  /\ o.row = 0
                  /\ o.col = 0
                  /\ o.dirty = fx.dirty

\* deleteCharBackward(1, 0) on the lines "a", "bc" gave "abc" and (0, 1).
C10_Witness ==
  /\ fx.pc = "deleted"
  /\ fx.lines = << <<"a">>, <<"b", "c">> >>
  /\ fx.row = 1
  /\ fx.col = 0
  /\ fx.out.lines = << <<"a", "b", "c">> >>
  /\ fx.out.row = 0
  /\ fx.out.col = 1

\* C11: insertNewline on an in-range position keeps the characters before
\* col at row, makes the characters from col on a new line at row + 1, keeps
\* every other line and their order, grows lineCount by one, sets dirty and
\* returns (row + 1, 0).
C11_InsertNewline ==
  (fx.pc = "split" /\ InRange(fx.lines, fx.row, fx.col))
    => LET ls == fx.lines
           r == fx.row + 1
           line == ls[r]
           o == fx.out
       IN /\ lineCount(o.lines) = lineCount(ls) + 1
          /\ \A i \in 1..Len(o.lines) :
               o.lines[i] = IF i < r THEN ls[i]
                            ELSE IF i = r THEN SubSeq(line, 1, fx.col)
                            ELSE IF i = r + 1 THEN SubSeq(line, fx.col + 1, Len(line))
                            ELSE ls[i - 1]
          /\ o.dirty
          /\ o.row = fx.row + 1
          /\ o.col = 0

\* insertNewline(0, 1) on the lines "abc", "def" gave "a", "bc", "def" and
\* (1, 0).
C11_Witness ==
  /\ fx.pc = "split"
  /\ fx.lines = << <<"a", "b", "c">>, <<"d", "e", "f">> >>
  /\ fx.row = 0
  /\ fx.col = 1
  /\ ~fx.dirty
  /\ fx.out.lines = << <<"a">>, <<"b", "c">>, <<"d", "e", "f">> >>
  /\ fx.out.dirty
  /\ fx.out.row = 1
  /\ fx.out.col = 0

(***************************************************************************)
(* Further properties of the editor state machine.                         *)
(***************************************************************************)
\* The step is a save command that wrote the file.
SavedInStep ==
  /\ invoked' = <<"file.save">>
  /\ filePath # NoPath
  /\ statusMessage' = <<"Saved.">>

\* The step is a palette confirm that loaded a file.
LoadedInStep ==
  /\ commandPaletteOpen
  /\ ~commandPaletteOpen'
  /\ statusMessage' = <<"Opened.">>

\* C12: dirty is false after boot; a step that loads or saves successfully
\* leaves it false, any other step that changes the buffer lines (a character
\* insert, a newline insert, a backspace that removed or joined) leaves it
\* true, and every other step leaves it as it was.  So in every reachable
\* state dirty tells whether the buffer was mutated since the last successful
\* load or save.
C12_DirtyTracksMutations ==
  /\ ~dirty
  /\ [][dirty' = IF SavedInStep \/ LoadedInStep THEN FALSE
                 ELSE IF lines' # lines THEN TRUE
                 ELSE dirty]_vars

\* A buffer that was typed into has been saved.
C12_Witness ==
  /\ invoked = <<"file.save">>
  /\ statusMessage = <<"Saved.">>
  /\ lines = << <<"a">> >>
  /\ ~dirty

\* C13: a save command that runs with a file path and whose write fails
\* leaves the editor running, with the error in the status message, the
\* buffer unchanged and dirty as it was.
C13_FailedSaveIsRecoverable ==
  [][\A key \in LeaderKeys \cup PaletteKeys : \A io \in IOs :
       ( /\ filePath # NoPath
         /\ ~io.ok
         /\ KeyEvent(key, io)
         /\ invoked' = <<"file.save">> )
       => /\ running'
          /\ ~crashed'
          /\ statusMessage' \notin {<<>>, <<"Saved.">>}
          /\ UNCHANGED <<lines, dirty>>]_vars

\* The path a palette confirm in the current state hands to openFile, or
\* NoPath when it opens no file.
OpenRequest ==
  LET selected == selectedItem(Cur)
      v == trim(paletteValue)
  IN IF startsWith(selected, OpenPathHead)
     THEN resolve(trim(stripHead(selected, OpenPathHead)))
     ELSE IF startsWith(v, OpenFileHead)
     THEN resolve(trim(stripHead(v, OpenFileHead)))
     ELSE NoPath

\* C14: a palette confirm that opens a path which exists but cannot be read
\* as a file (a read error, or a directory) leaves the editor running, with
\* the error in the status message and buffer lines, dirty, file path, cursor
\* and scrollTop unchanged.
C14_UnreadableOpenIsRecoverable ==
  [][\A io \in IOs :
       ( /\ commandPaletteOpen
         /\ OpenRequest # NoPath
         /\ existsSync(OpenRequest)
         /\ (isDirectory(OpenRequest) \/ ~io.ok)
         /\ KeyEvent(K_enter, io) )
       => /\ running'
          /\ ~crashed'
          /\ statusMessage' # <<>>
          /\ UNCHANGED <<lines, dirty, filePath, cursor, scrollTop>>]_vars

\* C15: a palette confirm that opens a path which does not exist sets a
\* status message and leaves buffer lines, dirty, file path, project root,
\* cursor and scrollTop unchanged.
C15_MissingOpenChangesNothing ==
  [][( /\ commandPaletteOpen
       /\ OpenRequest # NoPath
       /\ ~existsSync(OpenRequest) )
     => \/ /\ statusMessage' # <<>>
           /\ UNCHANGED <<lines, dirty, filePath, projectRoot, cursor,
                          scrollTop>>
        \/ \A io \in IOs : ~KeyEvent(K_enter, io)]_vars

\* A missing path was asked for over an edited buffer of a file, the cursor
\* away from the origin.
C15_Witness ==
  /\ statusMessage = <<"File not found.">>
  /\ ~commandPaletteOpen
  /\ invoked = <<>>
  /\ dirty
  /\ filePath # NoPath
  /\ cursor # [row |-> 0, col |-> 0]

(***************************************************************************)
(* refreshPaletteList applied to queries drawn from a bounded set.         *)
(***************************************************************************)
ListAlphabet == {".", "/", "\\", "f", " "}

ListInit ==
  /\ EditorIdle
  /\ \E q \in StringsUpTo(ListAlphabet, MaxListQuery) :
       fx = [pc |-> "input", query |-> q]

\* refreshPaletteList(query); the items are those handed to
\* paletteList.setItems.
RefreshCall ==
  /\ fx.pc = "input"
  /\ fx' = [pc |-> "listed", query |-> fx.query,
            out |-> refreshPaletteList(Cur, fx.query).paletteItems]
  /\ UNCHANGED editorVars

SpecList == ListInit /\ [][RefreshCall]_vars

\* The registered command titles, in registration order.
CommandTitles == [i \in 1..Len(commands) |-> commands[i].title]

\* The label is an open-path entry.
IsOpenPathEntry(label) == startsWith(label, OpenPathHead)

\* C16: a list recomputed for a query whose trimmed text is not empty and
\* holds a dot, a slash or a backslash starts with the open-path entry that
\* carries the trimmed query verbatim, followed by command titles only; the
\* list of any other query holds no open-path entry.
C16_OpenPathEntryFirst ==
  fx.pc = "listed"
    => LET q == trim(fx.query)
           items == fx.out
       IN IF q # <<>> /\ \E i \in 1..Len(q) : q[i] \in {".", "/", "\\"}
          THEN /\ Len(items) >= 1
               /\ items[1] = OpenPathHead \o <<" ">> \o q
               /\ \A i \in 2..Len(items) :
                    /\ ~IsOpenPathEntry(items[i])
                    /\ \E j \in 1..Len(CommandTitles) : items[i] = CommandTitles[j]
          ELSE \A i \in 1..Len(items) : ~IsOpenPathEntry(items[i])

\* The list of the query " ./" is the single entry "Open file path: ./".
C16_Witness ==
  /\ fx.pc = "listed"
  /\ fx.query = <<" ", ".", "/">>
  /\ fx.out = << OpenPathHead \o <<" ", ".", "/">> >>

\* C17: a palette confirm that opens no path and whose selected label is no
\* command title closes the palette, runs no command and leaves mode, buffer,
\* dirty, cursor, scrollTop and status message as they were.
C17_ConfirmWithoutMatchOnlyCloses ==
  [][( /\ commandPaletteOpen
       /\ \A i \in 1..Len(CommandTitles) : selectedItem(Cur) # CommandTitles[i]
       /\ OpenRequest = NoPath )
     => \/ /\ ~commandPaletteOpen'
           /\ invoked' = <<>>
           /\ UNCHANGED <<mode, lines, dirty, cursor, scrollTop,
                          statusMessage, filePath, projectRoot, leader,
                          leaderNode, running, crashed>>
        \/ \A io \in IOs : ~KeyEvent(K_enter, io)]_vars

\* The palette shows the "(no results)" placeholder for a typed query, over
\* an edited buffer and a status message: a confirm here matches nothing.
C17_Witness ==
  /\ commandPaletteOpen
  /\ OpenRequest = NoPath
  /\ paletteValue = <<"x">>
  /\ pending = 0
  /\ selectedItem(Cur) = NoResults
  /\ dirty
  /\ statusMessage # <<>>

\* C18: a palette confirm selects from the list computed from the query text
\* as it stands when the confirm is handled, and no list recomputation runs
\* once the palette is closed.
C18_ConfirmSeesCurrentList ==
  [][/\ \A io \in IOs :
          (commandPaletteOpen /\ KeyEvent(K_enter, io))
          => paletteItems = refreshCallback(Cur).paletteItems
     /\ pending' < pending => commandPaletteOpen]_vars

(***************************************************************************)
(* Further properties of fuzzyScore.                                       *)
(***************************************************************************)
\* The 1-based place in t of the k-th character of q when q is matched
\* against t from the left, each character at its first chance.
RECURSIVE MatchPos(_, _, _)
MatchPos(q, t, k) ==
  LET from == IF k = 1 THEN 0 ELSE MatchPos(q, t, k - 1)
      places == {i \in (from + 1)..Len(t) : t[i] = q[k]}
  IN CHOOSE i \in places : \A j \in places : i <= j

\* The streak at the k-th match: the number of matches that end there with
\* no mismatch in between.
RECURSIVE StreakAt(_, _, _)
StreakAt(q, t, k) ==
  IF k > 1 /\ MatchPos(q, t, k) = MatchPos(q, t, k - 1) + 1
  THEN StreakAt(q, t, k - 1) + 1
  ELSE 1

RECURSIVE MatchBonus(_, _, _)
MatchBonus(q, t, k) ==
  IF k = 0 THEN 0 ELSE MatchBonus(q, t, k - 1) + 10 + 5 * StreakAt(q, t, k)

\* The score the contract gives a non-empty query q that is a subsequence
\* of t.
ContractScore(q, t) ==
  LET n == Len(q)
  IN MatchBonus(q, t, n) - (MatchPos(q, t, n) - n)
       + Max(0, 50 - (MatchPos(q, t, 1) - 1))

\* C19: for a non-empty query that is a subsequence of the text, compared
\* without regard to case, fuzzyScore is the sum over the matches of
\* 10 + 5 * streak, less one for each mismatch scanned up to the last match,
\* plus max(0, 50 - index of the first match).
C19_ScoreFormula ==
  LET q == toLowerCase(fx.query)
      t == toLowerCase(fx.text)
  IN (fx.pc = "scored" /\ q # <<>> /\ IsSubsequence(q, t))
       => fx.out = ContractScore(q, t)

\* score("fs", "file.save") was computed and is 76.
C19_Witness ==
  /\ fx.pc = "scored"
  /\ fx.query = <<"f", "s">>
  /\ fx.text = <<"f", "i", "l", "e", ".", "s", "a", "v", "e">>
  /\ fx.out = 76

\* The step opens the palette: it was closed, or a command run from it has
\* opened it anew.
PaletteOpensInStep ==
  /\ commandPaletteOpen'
  /\ ~commandPaletteOpen \/ invoked' \in {<<"file.open">>, <<"palette.open">>}

\* C20: the score of the empty query is 0 for every text, and the list of a
\* palette that has just opened, whatever its prefill, is the registered
\* command titles in registration order, with no open-path entry.
C20_EmptyQueryListsAllCommands ==
  /\ \A n \in 0..MaxPad : \A t \in StringsUpTo(FuzzyAlphabet, MaxText) :
       fuzzyScore(<<>>, Pad(n) \o t) = 0
  /\ \A i \in 1..Len(CommandTitles) : fuzzyScore(<<>>, CommandTitles[i]) = 0
  /\ [][PaletteOpensInStep => paletteItems' = CommandTitles]_vars

\* The "Open file: " prompt has just opened and lists every command.
C20_Witness ==
  /\ commandPaletteOpen
  /\ invoked = <<"file.open">>
  /\ paletteValue = OpenFilePrefill
  /\ paletteItems = CommandTitles
  /\ Len(paletteItems) = 5
  /\ \A i \in 1..Len(paletteItems) : ~IsOpenPathEntry(paletteItems[i])

(***************************************************************************)
(* Further properties of the TextBuffer operations.                        *)
(***************************************************************************)
\* The line with ch spliced in at position at.
SplicedAt(line, at, ch) ==
  SubSeq(line, 1, at) \o <<ch>> \o SubSeq(line, at + 1, Len(line))

\* C21: insertChar on an existing row splices the character in at col
\* clamped to [0, length(line)] (at the end for a col past the line, at
\* position 0 for a negative col); the line grows by one character, no other
\* line changes, lineCount is unchanged and dirty becomes true.
C21_InsertCharClamps ==
  fx.pc = "inserted"
  => LET line == fx.lines[fx.row + 1]
         at == Max(0, Min(fx.col, Len(line)))
     IN /\ fx.out.lines = [fx.lines EXCEPT ![fx.row + 1] = SplicedAt(line, at, fx.ch)]
        /\ lineCount(fx.out.lines) = lineCount(fx.lines)
        /\ fx.out.dirty

(***************************************************************************)
(* Further properties of fuzzyFind.                                        *)
(***************************************************************************)
\* The places in the input of the items whose label has the query as a
\* case-insensitive subsequence.
MatchingIds(query, items) ==
  {items[i].id : i \in {j \in 1..Len(items) :
     IsSubsequence(toLowerCase(query), toLowerCase(items[j].title))}}

\* C22: when at most limit items match, the result of findRanked holds
\* every item whose label has the query as a case-insensitive subsequence
\* and no other item.
C22_FindRankedKeepsEveryMatch ==
  fx.pc = "found"
  => LET matching == MatchingIds(fx.query, fx.items)
         got == {fx.out[i].item.id : i \in 1..Len(fx.out)}
     IN Cardinality(matching) <= fx.limit => got = matching

(***************************************************************************)
(* Properties of the modes.                                                *)
(***************************************************************************)
\* The current state with the mode replaced by m.
AsMode(m) == [Cur EXCEPT !.mode = m]

\* The key has the same effect in VISUAL as in NORMAL on everything but the
\* mode, and the same resulting mode, except that a key which leaves NORMAL
\* in NORMAL leaves VISUAL in VISUAL.
SameAsNormal(key, io) ==
  LET n == keypress(AsMode("NORMAL"), key, io, height)
      v == keypress(AsMode("VISUAL"), key, io, height)
  IN /\ [v EXCEPT !.mode = "NORMAL"] = [n EXCEPT !.mode = "NORMAL"]
     /\ v.mode = IF n.mode = "NORMAL" THEN "VISUAL" ELSE n.mode

\* Every key other than escape acts in VISUAL as it does in NORMAL.
VisualActsAsNormal ==
  (running /\ mode \in {"NORMAL", "VISUAL"})
  => \A key \in KeysIn(Cur) \ {K_escape} : \A io \in IOsIn(Cur, key) :
       SameAsNormal(key, io)

\* C23, as stated: VISUAL acts as NORMAL on every key other than escape, and
\* escape in VISUAL yields NORMAL with nothing else changed.
C23_VisualIsNormalButLabel ==
  /\ VisualActsAsNormal
  /\ (running /\ mode = "VISUAL" /\ ~commandPaletteOpen)
     => keypress(Cur, K_escape, [ok |-> TRUE, data |-> <<>>], height)
          = [Cur EXCEPT !.mode = "NORMAL", !.invoked = <<>>]

\* C23, amended: VISUAL acts as NORMAL on every key other than escape, and
\* escape in VISUAL yields NORMAL and clears the status message, with
\* nothing else changed.
C23_VisualIsNormalEscapeClearsStatus ==
  /\ VisualActsAsNormal
  /\ (running /\ mode = "VISUAL" /\ ~commandPaletteOpen)
     => keypress(Cur, K_escape, [ok |-> TRUE, data |-> <<>>], height)
          = [Cur EXCEPT !.mode = "NORMAL", !.statusMessage = <<>>,
                        !.invoked = <<>>]

\* VISUAL over an edited buffer, the cursor away from the origin and a
\* status message left by a command run from the palette.
C23_Witness ==
  /\ running
  /\ mode = "VISUAL"
  /\ ~commandPaletteOpen
  /\ statusMessage # <<>>
  /\ dirty
  /\ cursor # [row |-> 0, col |-> 0]

\* The node reached from node by following the keys of seq.
RECURSIVE Walk(_, _)
Walk(node, seq) ==
  IF seq = <<>> THEN node ELSE Walk(stepLeader(node, Head(seq)), Tail(seq))

\* The keys of LeaderKeys that match a Group child of the current node.
GroupKeys ==
  {k \in LeaderKeys : stepLeader(leaderNode, LeaderToken(k)).kind = "group"}

\* C24: mode is LEADER exactly when the LeaderState is active; in LEADER the
\* current node is a Group and is the node reached from the root by the
\* recorded sequence, and a key matching a Group child appends the key,
\* moves to that child and stays in LEADER; outside LEADER the sequence is
\* empty and the current node is the root.
C24_LeaderStateTracksMode ==
  /\ (mode = "LEADER") <=> leader.active
  /\ mode = "LEADER"
     => /\ leaderNode.kind = "group"
        /\ leaderNode = Walk(leaderMap, leader.seq)
        /\ \A k \in GroupKeys :
             LET r == keypress(Cur, k, [ok |-> TRUE, data |-> <<>>], height)
             IN /\ r.mode = "LEADER"
                /\ r.leader = [active |-> TRUE,
                               seq |-> Append(leader.seq, LeaderToken(k))]
                /\ r.leaderNode = stepLeader(leaderNode, LeaderToken(k))
  /\ mode # "LEADER" => (leader.seq = <<>> /\ leaderNode = leaderMap)

\* LEADER after the key f: the sequence holds f and the node is the files
\* group.
C24_Witness ==
  /\ mode = "LEADER"
  /\ leader.active
  /\ leader.seq = <<"f">>
  /\ leaderNode.title = "files"
  /\ leaderNode # leaderMap

\* C25: the mode COMMAND is never reached; whenever the palette is open the
\* mode is NORMAL or VISUAL; and a leader key whose command opens the palette
\* leaves the mode NORMAL.
C25_PaletteOnlyInNormalOrVisual ==
  /\ mode # "COMMAND"
  /\ mode \in {"NORMAL", "INSERT", "VISUAL", "LEADER"}
  /\ commandPaletteOpen => mode \in {"NORMAL", "VISUAL"}
  /\ (running /\ mode = "LEADER" /\ ~commandPaletteOpen)
     => \A k \in LeaderKeys : \A io \in IOs :
          LET r == keypress(Cur, k, io, height)
          IN r.commandPaletteOpen => r.mode = "NORMAL"

\* The palette opened by the leader sequence SPC SPC over an edited buffer.
C25_Witness ==
  /\ commandPaletteOpen
  /\ mode = "NORMAL"
  /\ invoked = <<"palette.open">>
  /\ ~leader.active
  /\ dirty

\* The document part of a state: buffer lines, dirty, cursor and scrollTop.
Document(s) ==
  [lines |-> s.lines, dirty |-> s.dirty, cursor |-> s.cursor,
   scrollTop |-> s.scrollTop]

\* The state after one escape key.
AfterEscape(s) == keypress(s, K_escape, [ok |-> TRUE, data |-> <<>>], height)

\* C26: while the editor runs, one escape with the palette closed yields
\* NORMAL; with the palette open one escape closes the palette and a second
\* yields NORMAL; the escapes leave buffer lines, dirty, cursor and scrollTop
\* unchanged.
C26_EscapeRecoversNormal ==
  running
  => LET e1 == AfterEscape(Cur)
         e2 == AfterEscape(e1)
     IN /\ Document(e1) = Document(Cur)
        /\ ~commandPaletteOpen => e1.mode = "NORMAL"
        /\ commandPaletteOpen
           => /\ ~e1.commandPaletteOpen
              /\ ~e2.commandPaletteOpen
              /\ e2.mode = "NORMAL"
              /\ Document(e2) = Document(Cur)

\* The palette open in VISUAL with a refresh still scheduled, over an edited
\* buffer with the cursor away from the origin: two escapes are needed.
C26_Witness ==
  /\ running
  /\ commandPaletteOpen
  /\ mode = "VISUAL"
  /\ pending > 0
  /\ dirty
  /\ cursor # [row |-> 0, col |-> 0]
  /\ AfterEscape(Cur).mode = "VISUAL"
  /\ AfterEscape(AfterEscape(Cur)).mode = "NORMAL"

\* The state after the key event (k, io) in state s.
AfterKey(s, k, io) == keypress(s, k, io, height)

\* C27: once LEADER is entered, whatever the next keys are, the mode is
\* NORMAL after at most two further key events; one key into the sequence,
\* after at most one.
C27_LeaderEndsWithinTwoKeys ==
  (running /\ mode = "LEADER")
  => \A k1 \in LeaderKeys : \A io1 \in IOs :
       LET r1 == AfterKey(Cur, k1, io1)
       IN /\ r1.mode \in {"NORMAL", "LEADER"}
          /\ leader.seq # <<>> => r1.mode = "NORMAL"
          /\ r1.mode = "LEADER"
             => \A k2 \in LeaderKeys : \A io2 \in IOs :
                  AfterKey(r1, k2, io2).mode = "NORMAL"

\* LEADER has just been entered from VISUAL over an edited buffer: f or b
\* keeps it in LEADER for one more key.
C27_Witness ==
  /\ running
  /\ mode = "LEADER"
  /\ leader.seq = <<>>
  /\ dirty
  /\ \E k \in LeaderKeys :
       AfterKey(Cur, k, [ok |-> TRUE, data |-> <<>>]).mode = "LEADER"

=============================================================================
